---- MODULE Spec2Model ----
(***************************************************************************)
(* A model of the GNS network-configuration compiler (src/main.py,         *)
(* src/utils.py, src/addressing.py, src/policies.py).                      *)
(*                                                                         *)
(* An intent is the JSON document the program loads.  Python dicts keep    *)
(* the order of the file, and several loops of the program depend on that  *)
(* order, so every dict is modelled as a sequence of entries in file       *)
(* order:                                                                  *)
(*   intent    = sequence of AS entries  [asn, igp, routers, add_range,    *)
(*               loopback]                                                 *)
(*   routers   = sequence of router entries [name, interfaces]             *)
(*   interfaces= sequence of interface entries [name, ngbr, relationship,  *)
(*               ipv6]                                                     *)
(* An IPv6 value is a record [h2, h3, host, plen] standing for the text    *)
(* 2001:db8:<h2>:<h3>::<host>/<plen>; plen = 0 stands for the empty        *)
(* string.  A range is [h2, h3, plen] (plen 48 or 64; plen 0 = not set).   *)
(***************************************************************************)
EXTENDS Integers, Sequences, FiniteSets

VARIABLES
    intent_file,     \* the intent file on disk (never written by the program)
    use_policies,    \* Network.use_policies
    intent_data,     \* Network.intent_data, the in-memory intent
    filled_file,     \* intent_filled.json on disk (<<>> before it is written)
    inventory,       \* Network.inventory, result of the last successful parse
    configs,         \* the router configurations written, name -> bundle
    pc,              \* the stage Network.run is about to execute
    error,           \* the exception that ended the run, if any
    exit_code,       \* process exit code (-1 while running)
    range_calls,     \* number of calls of choose_ebgp_range so far
    trace            \* the stages Network.run has started, in order

vars == <<intent_file, use_policies, intent_data, filled_file, inventory,
          configs, pc, error, exit_code, range_calls, trace>>

----------------------------------------------------------------------------
(* Strings: Python compares and sorts str values by code point.            *)

Chars(s) ==
    CASE s = ""          -> <<>>
      [] s = "R1"        -> <<82, 49>>
      [] s = "R2"        -> <<82, 50>>
      [] s = "R3"        -> <<82, 51>>
      [] s = "R9"        -> <<82, 57>>
      [] s = "R12"       -> <<82, 49, 50>>
      [] s = "r3"        -> <<114, 51>>
      [] s = "PE2"       -> <<80, 69, 50>>
      [] s = "core"      -> <<99, 111, 114, 101>>
      [] s = "e0"        -> <<101, 48>>
      [] s = "e1"        -> <<101, 49>>
      [] s = "e2"        -> <<101, 50>>
      [] s = "e3"        -> <<101, 51>>
      [] s = "Loopback0" -> <<76, 111, 111, 112, 98, 97, 99, 107, 48>>
      [] s = "Loopback1" -> <<76, 111, 111, 112, 98, 97, 99, 107, 49>>

RECURSIVE SeqLess(_, _)
SeqLess(a, b) ==
    IF b = <<>> THEN FALSE
    ELSE IF a = <<>> THEN TRUE
    ELSE IF Head(a) # Head(b) THEN Head(a) < Head(b)
    ELSE SeqLess(Tail(a), Tail(b))

\* a < b for Python str
StrLess(a, b) == SeqLess(Chars(a), Chars(b))

\* sorted(S) for a set of str
RECURSIVE SortedStrs(_)
SortedStrs(S) ==
    IF S = {} THEN <<>>
    ELSE LET m == CHOOSE x \in S : \A y \in S : x = y \/ StrLess(x, y)
         IN  <<m>> \o SortedStrs(S \ {m})

\* sorted(S) for a set of int
RECURSIVE SortedInts(_)
SortedInts(S) ==
    IF S = {} THEN <<>>
    ELSE LET m == CHOOSE x \in S : \A y \in S : x <= y
         IN  <<m>> \o SortedInts(S \ {m})

\* name.startswith("Loopback")
StartsWithLoopback(s) ==
    LET c == Chars(s)
        p == <<76, 111, 111, 112, 98, 97, 99, 107>>
    IN  Len(c) >= Len(p) /\ SubSeq(c, 1, Len(p)) = p

Range(f) == {f[i] : i \in DOMAIN f}

----------------------------------------------------------------------------
(* Values of the data model.                                               *)

NoAddr == [h2 |-> 0, h3 |-> 0, host |-> 0, plen |-> 0]
NoRange == [h2 |-> 0, h3 |-> 0, plen |-> 0]
NoError == [kind |-> "", router |-> "", iface |-> ""]
Err(k, r, i) == [kind |-> k, router |-> r, iface |-> i]
NoInventory == [ases |-> <<>>, router_to_as |-> <<>>]

SUPPORTED_IGP == {"OSPF", "RIP"}

\* dict lookups by key in a sequence of entries
HasKey(entries, key) == \E i \in DOMAIN entries : entries[i].name = key
IndexOf(entries, key) == CHOOSE i \in DOMAIN entries : entries[i].name = key
HasAS(ases, asn) == \E i \in DOMAIN ases : ases[i].asn = asn
ASIndex(ases, asn) == CHOOSE i \in DOMAIN ases : ases[i].asn = asn

\* the positions <<AS, router, interface>> of all interfaces, and file order
Positions(ases) ==
    UNION { UNION { { <<i, j, k>> : k \in DOMAIN ases[i].routers[j].interfaces }
                    : j \in DOMAIN ases[i].routers }
            : i \in DOMAIN ases }
PosLess(p, q) ==
    \/ p[1] < q[1]
    \/ p[1] = q[1] /\ p[2] < q[2]
    \/ p[1] = q[1] /\ p[2] = q[2] /\ p[3] < q[3]
FirstPos(S) == CHOOSE p \in S : \A q \in S : p = q \/ PosLess(p, q)
RouterAt(ases, p) == ases[p[1]].routers[p[2]]
IfaceAt(ases, p) == ases[p[1]].routers[p[2]].interfaces[p[3]]

----------------------------------------------------------------------------
(* utils.parse_info: the typed inventory, or the first structural error.   *)

\* the router loop of one AS entry; seen = keys of router_to_as so far
RECURSIVE ParseRouters(_, _, _)
ParseRouters(routers, j, seen) ==
    IF j > Len(routers) THEN [err |-> NoError, seen |-> seen]
    ELSE IF routers[j].name \in seen
         THEN [err |-> Err("RouterCollision", routers[j].name, ""), seen |-> seen]
    ELSE IF routers[j].interfaces = <<>>
         THEN [err |-> Err("EmptyInterfaceSet", routers[j].name, ""), seen |-> seen]
    ELSE ParseRouters(routers, j + 1, seen \cup {routers[j].name})

\* faulty variant: router names checked against the routers of the same AS only
RECURSIVE ParseASesPerAS(_, _, _, _)
ParseASesPerAS(data, i, asSeen, seen) ==
    IF i > Len(data) THEN NoError
    ELSE IF data[i].asn \in asSeen THEN Err("DuplicateAS", "", "")
    ELSE IF data[i].igp \notin SUPPORTED_IGP THEN Err("UnsupportedIGP", "", "")
    ELSE IF data[i].routers = <<>> THEN Err("EmptyRouterSet", "", "")
    ELSE LET r == ParseRouters(data[i].routers, 1, {})
         IN  IF r.err # NoError THEN r.err
             ELSE ParseASesPerAS(data, i + 1, asSeen \cup {data[i].asn}, {})

RECURSIVE ParseASes(_, _, _, _)
ParseASes(data, i, asSeen, seen) ==
    IF i > Len(data) THEN NoError
    ELSE IF data[i].asn \in asSeen THEN Err("DuplicateAS", "", "")
    ELSE IF data[i].igp \notin SUPPORTED_IGP THEN Err("UnsupportedIGP", "", "")
    ELSE IF data[i].routers = <<>> THEN Err("EmptyRouterSet", "", "")
    ELSE LET r == ParseRouters(data[i].routers, 1, seen)
         IN  IF r.err # NoError THEN r.err
             ELSE ParseASes(data, i + 1, asSeen \cup {data[i].asn}, r.seen)

\* router_to_as of a successfully parsed document: name -> asn
RouterToAs(data) ==
    [n \in {data[i].routers[j].name : <<i, j>> \in
              UNION {{<<i, j>> : j \in DOMAIN data[i].routers} : i \in DOMAIN data}}
       |-> LET i == CHOOSE i \in DOMAIN data : HasKey(data[i].routers, n)
           IN  data[i].asn]

parse_info(data) ==
    IF data = <<>> THEN [err |-> Err("EmptyASSet", "", ""), inv |-> NoInventory]
    ELSE LET e == ParseASes(data, 1, {}, {})
         IN  IF e # NoError THEN [err |-> e, inv |-> NoInventory]
             ELSE [err |-> NoError,
                   inv |-> [ases |-> data, router_to_as |-> RouterToAs(data)]]

----------------------------------------------------------------------------
(* utils.basic_validation: parse, then neighbor existence, then            *)
(* reciprocity; the first offending interface in file order raises.        *)

\* the number of interfaces of router `neighbor` whose ngbr is router_name
Matches(inv, neighbor, router_name) ==
    LET nasn == inv.router_to_as[neighbor]
        nrouter == inv.ases[ASIndex(inv.ases, nasn)].routers
        ifs == nrouter[IndexOf(nrouter, neighbor)].interfaces
    IN  Cardinality({k \in DOMAIN ifs : ifs[k].ngbr = router_name})

\* first loop: every non-empty neighbor is a known router
UnknownNeighbors(inv) ==
    {p \in Positions(inv.ases) :
        /\ IfaceAt(inv.ases, p).ngbr # ""
        /\ IfaceAt(inv.ases, p).ngbr \notin DOMAIN inv.router_to_as}

\* faulty variant: the second loop without its "matches > 1" test
NotReciprocalZeroOnly(inv) ==
    {p \in Positions(inv.ases) :
        /\ IfaceAt(inv.ases, p).ngbr # ""
        /\ Matches(inv, IfaceAt(inv.ases, p).ngbr, RouterAt(inv.ases, p).name) = 0}

\* second loop: exactly one interface of the neighbor points back
NotReciprocal(inv) ==
    {p \in Positions(inv.ases) :
        /\ IfaceAt(inv.ases, p).ngbr # ""
        /\ Matches(inv, IfaceAt(inv.ases, p).ngbr, RouterAt(inv.ases, p).name) # 1}

ReciprocityError(inv, p) ==
    IF Matches(inv, IfaceAt(inv.ases, p).ngbr, RouterAt(inv.ases, p).name) = 0
    THEN Err("NonReciprocalLink", RouterAt(inv.ases, p).name, IfaceAt(inv.ases, p).name)
    ELSE Err("AmbiguousLink", RouterAt(inv.ases, p).name, IfaceAt(inv.ases, p).name)

basic_validation(data) ==
    LET parsed == parse_info(data)
        inv == parsed.inv
    IN  IF parsed.err # NoError THEN parsed
        ELSE IF UnknownNeighbors(inv) # {}
        THEN LET p == FirstPos(UnknownNeighbors(inv))
             IN  [err |-> Err("UnknownNeighbor", RouterAt(inv.ases, p).name,
                              IfaceAt(inv.ases, p).name),
                  inv |-> NoInventory]
        ELSE IF NotReciprocal(inv) # {}
        THEN [err |-> ReciprocityError(inv, FirstPos(NotReciprocal(inv))),
              inv |-> NoInventory]
        ELSE parsed

----------------------------------------------------------------------------
(* addressing.py                                                           *)

AS_MODULUS == 256
LOOPBACK_HEXTET == 65535
MAX_HEXTET == 65535
LINK_PREFIXLEN == 64
AS_PREFIXLEN == 48
LOOPBACK_PREFIXLEN == 128

\* f"2001:db8:{as_mod}::/48": the decimal digits of as_mod are written into
\* the address text, where ipaddress reads them as a hexadecimal hextet
DecimalDigitsAsHex(n) ==
    (n \div 100) * 256 + ((n \div 10) % 10) * 16 + (n % 10)

assign_default_ranges(intent) ==
    [i \in DOMAIN intent |->
        LET as_mod == intent[i].asn % AS_MODULUS
        IN  [intent[i] EXCEPT
               !.add_range = [h2 |-> DecimalDigitsAsHex(as_mod), h3 |-> 0,
                              plen |-> AS_PREFIXLEN],
               !.loopback = [h2 |-> DecimalDigitsAsHex(as_mod),
                             h3 |-> LOOPBACK_HEXTET, plen |-> LINK_PREFIXLEN]]]

\* build_global_router_view: AS entries are scanned in ascending AS number,
\* so for a name present in several entries the highest AS number wins
GlobalNames(intent) ==
    UNION {{intent[i].routers[j].name : j \in DOMAIN intent[i].routers}
           : i \in DOMAIN intent}
GlobalAs(intent, n) ==
    LET holders == {intent[i].asn : i \in {i \in DOMAIN intent :
                                             HasKey(intent[i].routers, n)}}
    IN  CHOOSE a \in holders : \A b \in holders : b <= a
GlobalRouter(intent, n) ==
    LET rs == intent[ASIndex(intent, GlobalAs(intent, n))].routers
    IN  rs[IndexOf(rs, n)]

\* faulty variant: the first interface of dst, whatever its neighbor
_find_reverse_iface_first(intent, src, dst) ==
    LET ifs == GlobalRouter(intent, dst).interfaces
    IN  IF ifs = <<>> THEN "" ELSE ifs[1].name

\* None is modelled by the empty name
_find_reverse_iface(intent, src, dst) ==
    LET ifs == GlobalRouter(intent, dst).interfaces
        hits == {k \in DOMAIN ifs : ifs[k].ngbr = src}
    IN  IF hits = {} THEN ""
        ELSE ifs[CHOOSE k \in hits : \A m \in hits : k <= m].name

RECURSIVE Flatten(_)
Flatten(ss) == IF ss = <<>> THEN <<>> ELSE Head(ss) \o Flatten(Tail(ss))

\* the order in which discover_all_links visits <<router, interface>>
RouterVisitOrder(intent) == SortedStrs(GlobalNames(intent))

VisitOrder(intent) ==
    LET rs == RouterVisitOrder(intent)
    IN  Flatten([i \in DOMAIN rs |->
          LET ifs == GlobalRouter(intent, rs[i]).interfaces
              names == SortedStrs({ifs[k].name : k \in DOMAIN ifs})
          IN  [k \in DOMAIN names |-> <<rs[i], names[k]>>]])

NoLinks == [intra |-> <<>>, inter |-> <<>>, seen |-> {}, err |-> NoError]

RECURSIVE DiscoverFrom(_, _, _, _)
DiscoverFrom(intent, visits, i, st) ==
    IF i > Len(visits) \/ st.err # NoError THEN st
    ELSE
      LET r_name == visits[i][1]
          if_name == visits[i][2]
          ifs == GlobalRouter(intent, r_name).interfaces
          ngbr == ifs[IndexOf(ifs, if_name)].ngbr
          as_r == GlobalAs(intent, r_name)
      IN  IF ngbr = "" \/ ngbr \notin GlobalNames(intent)
          THEN DiscoverFrom(intent, visits, i + 1, st)
          ELSE IF <<r_name, ngbr>> \in st.seen \/ <<ngbr, r_name>> \in st.seen
          THEN DiscoverFrom(intent, visits, i + 1, st)
          ELSE
            LET ng_if == _find_reverse_iface(intent, r_name, ngbr)
                as_ng == GlobalAs(intent, ngbr)
                link == [r1 |-> r_name, if1 |-> if_name, as1 |-> as_r,
                         r2 |-> ngbr, if2 |-> ng_if, as2 |-> as_ng]
            IN  IF ng_if = ""
                THEN [st EXCEPT !.err = Err("LinkNotSymmetric", r_name, if_name)]
                ELSE DiscoverFrom(intent, visits, i + 1,
                       [st EXCEPT
                          !.intra = IF as_r = as_ng THEN Append(@, link) ELSE @,
                          !.inter = IF as_r = as_ng THEN @ ELSE Append(@, link),
                          !.seen = @ \cup {<<r_name, ngbr>>}])

discover_all_links(intent) == DiscoverFrom(intent, VisitOrder(intent), 1, NoLinks)

\* intent["AS"][asn]["routers"][r]["interfaces"][ifn]["ipv6"] = addr
SetIpv6(intent, asn, r, ifn, addr) ==
    LET a == ASIndex(intent, asn)
        j == IndexOf(intent[a].routers, r)
        k == IndexOf(intent[a].routers[j].interfaces, ifn)
    IN  [intent EXCEPT ![a].routers[j].interfaces[k].ipv6 = addr]

Address(subnet, offset) ==
    [h2 |-> subnet.h2, h3 |-> subnet.h3, host |-> offset, plen |-> subnet.plen]

\* faulty variant: the loop body without the write to the reverse endpoint
RECURSIVE AssignLinksSourceOnly(_, _, _, _)
AssignLinksSourceOnly(intent, links, nets, i) ==
    IF i > Len(links) THEN intent
    ELSE AssignLinksSourceOnly(
           SetIpv6(intent, links[i].as1, links[i].r1, links[i].if1,
                   [h2 |-> nets[i].h2, h3 |-> nets[i].h3, host |-> 1,
                    plen |-> nets[i].plen]),
           links, nets, i + 1)

\* the body shared by the two link loops: link i gets subnet nets[i]
RECURSIVE AssignLinks(_, _, _, _)
AssignLinks(intent, links, nets, i) ==
    IF i > Len(links) THEN intent
    ELSE LET l == links[i]
             ip1 == Address(nets[i], 1)
             ip2 == Address(nets[i], 2)
         IN  AssignLinks(
               SetIpv6(SetIpv6(intent, l.as1, l.r1, l.if1, ip1),
                       l.as2, l.r2, l.if2, ip2),
               links, nets, i + 1)

\* faulty variant: the cursor of an AS is never advanced
IntraSubnetsFirstBlock(intent, links) ==
    [i \in DOMAIN links |->
        [h2 |-> intent[ASIndex(intent, links[i].as1)].add_range.h2,
         h3 |-> 0,
         plen |-> LINK_PREFIXLEN]]

\* next(pools[as1]): every AS has its own cursor over the /64s of its /48
IntraSubnets(intent, links) ==
    [i \in DOMAIN links |->
        [h2 |-> intent[ASIndex(intent, links[i].as1)].add_range.h2,
         h3 |-> Cardinality({j \in 1..(i - 1) : links[j].as1 = links[i].as1}),
         plen |-> LINK_PREFIXLEN]]

fill_ipv6_intra_as(intent0) ==
    LET intent == assign_default_ranges(intent0)
        found == discover_all_links(intent)
        nets == IntraSubnets(intent, found.intra)
    IN  IF found.err # NoError THEN [err |-> found.err, intent |-> intent]
        ELSE IF \E i \in DOMAIN nets : nets[i].h3 > MAX_HEXTET
        THEN [err |-> Err("StopIteration", "", ""), intent |-> intent]
        ELSE [err |-> NoError,
              intent |-> AssignLinks(intent, found.intra, nets, 1)]

\* faulty variant: the first candidate is returned without the overlap test
ScanCandidatesUnchecked(taken, cand) == cand

\* the /48 candidates of 2001:db8::/32 in ascending order; -1 = none found
RECURSIVE ScanCandidates(_, _)
ScanCandidates(taken, cand) ==
    IF cand > MAX_HEXTET THEN -1
    ELSE IF cand \notin taken THEN cand
    ELSE ScanCandidates(taken, cand + 1)

choose_ebgp_range(intent) ==
    ScanCandidates({intent[i].add_range.h2 : i \in DOMAIN intent}, 0)

EbgpSubnets(h2, links) ==
    [i \in DOMAIN links |-> [h2 |-> h2, h3 |-> i - 1, plen |-> LINK_PREFIXLEN]]

\* faulty variant: no early return when there is no inter-AS link
fill_ipv6_ebgp_links_always(intent) ==
    LET found == discover_all_links(intent)
        ebgp_net == choose_ebgp_range(intent)
    IN  IF found.err # NoError
        THEN [err |-> found.err, intent |-> intent, calls |-> 0]
        ELSE IF ebgp_net < 0
        THEN [err |-> Err("NoEbgpRange", "", ""), intent |-> intent, calls |-> 1]
        ELSE [err |-> NoError,
              intent |-> AssignLinks(intent, found.inter,
                                     EbgpSubnets(ebgp_net, found.inter), 1),
              calls |-> 1]

fill_ipv6_ebgp_links(intent) ==
    LET found == discover_all_links(intent)
        ebgp_net == choose_ebgp_range(intent)
    IN  IF found.err # NoError
        THEN [err |-> found.err, intent |-> intent, calls |-> 0]
        ELSE IF found.inter = <<>>
        THEN [err |-> NoError, intent |-> intent, calls |-> 0]
        ELSE IF ebgp_net < 0
        THEN [err |-> Err("NoEbgpRange", "", ""), intent |-> intent, calls |-> 1]
        ELSE IF Len(found.inter) > MAX_HEXTET + 1
        THEN [err |-> Err("StopIteration", "", ""), intent |-> intent, calls |-> 1]
        ELSE [err |-> NoError,
              intent |-> AssignLinks(intent, found.inter,
                                     EbgpSubnets(ebgp_net, found.inter), 1),
              calls |-> 1]

\* the routers of one AS in file order: router j gets the j-th host
LoopbackRouter(r, range, j) ==
    LET lo == [h2 |-> range.h2, h3 |-> range.h3, host |-> j,
               plen |-> LOOPBACK_PREFIXLEN]
        ifs == IF HasKey(r.interfaces, "Loopback0") THEN r.interfaces
               ELSE Append(r.interfaces,
                           [name |-> "Loopback0", ngbr |-> "",
                            relationship |-> "", ipv6 |-> NoAddr])
    IN  [r EXCEPT !.interfaces =
           [ifs EXCEPT ![IndexOf(ifs, "Loopback0")].ipv6 = lo]]

fill_loopbacks(intent) ==
    [i \in DOMAIN intent |->
        IF intent[i].loopback.plen = 0 THEN intent[i]
        ELSE [intent[i] EXCEPT !.routers =
                [j \in DOMAIN intent[i].routers |->
                   LoopbackRouter(intent[i].routers[j], intent[i].loopback, j)]]]

----------------------------------------------------------------------------
(* policies.validate_relationships                                         *)

CUSTOMER == "customer"
PROVIDER == "provider"
PEER == "peer"
VALID_RELATIONSHIPS == {CUSTOMER, PROVIDER, PEER}

\* router_to_as as the function builds it: entries in file order, last wins
RelRouterToAs(intent, n) ==
    LET holders == {i \in DOMAIN intent : HasKey(intent[i].routers, n)}
    IN  intent[CHOOSE i \in holders : \A m \in holders : m <= i].asn

\* rel_of(r, n): the tag of the first interface of r whose ngbr is n
rel_of(intent, r, n) ==
    LET rs == intent[ASIndex(intent, RelRouterToAs(intent, r))].routers
        ifs == rs[IndexOf(rs, r)].interfaces
        hits == {k \in DOMAIN ifs : ifs[k].ngbr = n}
    IN  IF hits = {} THEN ""
        ELSE ifs[CHOOSE k \in hits : \A m \in hits : k <= m].relationship

\* faulty variant: a peer tag on either side is accepted against any tag
ComplementaryOrPeer(relationship, other_rel) ==
    \/ relationship = PEER
    \/ other_rel = PEER
    \/ relationship = PROVIDER /\ other_rel = CUSTOMER
    \/ relationship = CUSTOMER /\ other_rel = PROVIDER

Complementary(relationship, other_rel) ==
    \/ relationship = PEER /\ other_rel = PEER
    \/ relationship = PROVIDER /\ other_rel = CUSTOMER
    \/ relationship = CUSTOMER /\ other_rel = PROVIDER

\* the loop body for the interface at position p: the error it raises, if any
RelationshipErrorAt(intent, p) ==
    LET router_name == RouterAt(intent, p).name
        if_data == IfaceAt(intent, p)
        neighbor == if_data.ngbr
    IN  IF neighbor = "" THEN NoError
        ELSE IF neighbor \notin GlobalNames(intent) THEN NoError
        ELSE IF RelRouterToAs(intent, neighbor) = intent[p[1]].asn THEN NoError
        ELSE IF if_data.relationship \notin VALID_RELATIONSHIPS
        THEN Err("InvalidRelationship", router_name, if_data.name)
        ELSE LET other_rel == rel_of(intent, neighbor, router_name)
             IN  IF other_rel # "" /\ ~Complementary(if_data.relationship, other_rel)
                 THEN Err("InconsistentRelationship", router_name, if_data.name)
                 ELSE NoError

validate_relationships(intent) ==
    LET bad == {p \in Positions(intent) : RelationshipErrorAt(intent, p) # NoError}
    IN  IF bad = {} THEN NoError ELSE RelationshipErrorAt(intent, FirstPos(bad))

----------------------------------------------------------------------------
(* utils.py: router numbers and the BGP peer tables.  A configuration line *)
(* is a record [cmd, ip, num, arg]; the fields a command does not use are  *)
(* NoAddr, 0 and "".  An address without its "/len" part has plen = -1.    *)

Line(cmd, ip, num, arg) == [cmd |-> cmd, ip |-> ip, num |-> num, arg |-> arg]

RECURSIVE DigitsValue(_, _)
DigitsValue(cs, acc) ==
    IF cs = <<>> THEN acc ELSE DigitsValue(Tail(cs), acc * 10 + (Head(cs) - 48))

\* re.match(r"^[Rr](\d+)$", name): the number, or 1 when the name does not match
router_number(router_name) ==
    LET cs == Chars(router_name)
    IN  IF /\ Len(cs) >= 2
           /\ cs[1] \in {82, 114}
           /\ \A i \in 2..Len(cs) : cs[i] \in 48..57
        THEN DigitsValue(Tail(cs), 0)
        ELSE 1

RID_MIN == 1
RID_MAX == 254
\* router_id_v4: the last octet of 10.10.10.<last>
router_id_v4(router_name) ==
    LET n == router_number(router_name)
        capped == IF n < RID_MAX THEN n ELSE RID_MAX
    IN  IF capped > RID_MIN THEN capped ELSE RID_MIN

\* ipv6_addr.split("/")[0]
StripPrefixLen(a) == IF a.plen = 0 THEN a ELSE [a EXCEPT !.plen = -1]

ASRouters(inv, asn) == inv.ases[ASIndex(inv.ases, asn)].routers

\* loopback(inv, asn): router name -> Loopback0 address, for those that have one
loopback(inv, asn) ==
    LET rs == ASRouters(inv, asn)
        have == {j \in DOMAIN rs : HasKey(rs[j].interfaces, "Loopback0")}
    IN  [n \in {rs[j].name : j \in have} |->
           LET ifs == rs[IndexOf(rs, n)].interfaces
           IN  StripPrefixLen(ifs[IndexOf(ifs, "Loopback0")].ipv6)]

\* faulty variant: the peer list of a router keeps the router itself
ibgp_table_with_self(inv, asn, order) ==
    LET rs == ASRouters(inv, asn)
        all_routers == SelectSeq(order, LAMBDA n : HasKey(rs, n))
        loopbacks == loopback(inv, asn)
    IN  [router \in {rs[j].name : j \in DOMAIN rs} |->
           LET peers == SelectSeq(all_routers, LAMBDA q : q \in DOMAIN loopbacks)
           IN  [k \in DOMAIN peers |-> loopbacks[peers[k]]]]

\* ibgp_table iterates the Python set all_routers; `order` is the order in
\* which this run of the interpreter iterates a set of these names
ibgp_table(inv, asn, order) ==
    LET rs == ASRouters(inv, asn)
        all_routers == SelectSeq(order, LAMBDA n : HasKey(rs, n))
        loopbacks == loopback(inv, asn)
    IN  [router \in {rs[j].name : j \in DOMAIN rs} |->
           LET peers == SelectSeq(all_routers,
                          LAMBDA q : q # router /\ q \in DOMAIN loopbacks)
           IN  [k \in DOMAIN peers |-> loopbacks[peers[k]]]]

\* faulty variant: the entry carries the address of the router's own interface
EbgpEntryLocalAddress(inv, asn, router_name, if_data) ==
    LET neighbor == if_data.ngbr
        known == neighbor \in DOMAIN inv.router_to_as
        neighbor_asn == inv.router_to_as[neighbor]
    IN  IF StartsWithLoopback(if_data.name) \/ neighbor = "" THEN <<>>
        ELSE IF ~known THEN <<>>
        ELSE IF neighbor_asn = 0 \/ neighbor_asn = asn THEN <<>>
        ELSE << [neighbor_ip |-> StripPrefixLen(if_data.ipv6),
                 neighbor_asn |-> neighbor_asn,
                 local_interface |-> if_data.name,
                 neighbor_name |-> neighbor] >>

\* the entries one interface of router_name adds to ebgp_peers[router_name]
EbgpEntry(inv, asn, router_name, if_data) ==
    LET neighbor == if_data.ngbr
        known == neighbor \in DOMAIN inv.router_to_as
        neighbor_asn == inv.router_to_as[neighbor]
        nifs == LET nrs == ASRouters(inv, neighbor_asn)
                IN  nrs[IndexOf(nrs, neighbor)].interfaces
        hits == {k \in DOMAIN nifs : nifs[k].ngbr = router_name}
    IN  IF StartsWithLoopback(if_data.name) \/ neighbor = "" THEN <<>>
        ELSE IF ~known THEN <<>>
        ELSE IF neighbor_asn = 0 \/ neighbor_asn = asn THEN <<>>
        ELSE IF hits = {} THEN <<>>
        ELSE << [neighbor_ip |-> StripPrefixLen(
                    nifs[CHOOSE k \in hits : \A m \in hits : k <= m].ipv6),
                 neighbor_asn |-> neighbor_asn,
                 local_interface |-> if_data.name,
                 neighbor_name |-> neighbor] >>

\* ebgp_table: router name -> list of eBGP neighbors ([] when it has none)
ebgp_table(inv, asn) ==
    LET rs == ASRouters(inv, asn)
    IN  [router \in {rs[j].name : j \in DOMAIN rs} |->
           LET ifs == rs[IndexOf(rs, router)].interfaces
           IN  Flatten([k \in DOMAIN ifs |-> EbgpEntry(inv, asn, router, ifs[k])])]

RouterIdLine(router_name) ==
    Line("bgp router-id", NoAddr, router_number(router_name), "")

NetworkLines(router_body, rm) ==
    IF HasKey(router_body.interfaces, "Loopback0")
       /\ router_body.interfaces[IndexOf(router_body.interfaces, "Loopback0")].ipv6.plen # 0
    THEN << Line("network",
                 router_body.interfaces[IndexOf(router_body.interfaces, "Loopback0")].ipv6,
                 0, rm) >>
    ELSE <<>>

\* ibgp_commands: the iBGP-only block of every router (--no-policies)
ibgp_commands(inv, asn, order) ==
    LET rs == ASRouters(inv, asn)
        ibgp_peers == ibgp_table(inv, asn, order)
    IN  [router \in {rs[j].name : j \in DOMAIN rs} |->
           LET peers == ibgp_peers[router]
           IN  << Line("router bgp", NoAddr, asn, ""), RouterIdLine(router),
                  Line("no bgp default ipv4-unicast", NoAddr, 0, "") >>
               \o Flatten([k \in DOMAIN peers |->
                    << Line("neighbor remote-as", peers[k], asn, ""),
                       Line("neighbor update-source", peers[k], 0, "Loopback0") >>])
               \o << Line("address-family ipv6 unicast", NoAddr, 0, "") >>
               \o NetworkLines(rs[IndexOf(rs, router)], "")
               \o Flatten([k \in DOMAIN peers |->
                    << Line("neighbor activate", peers[k], 0, ""),
                       Line("neighbor next-hop-self", peers[k], 0, "") >>])
               \o << Line("exit-address-family", NoAddr, 0, "") >>]

\* ebgp_commands: the eBGP-only block of every router (--no-policies)
ebgp_commands(inv, asn) ==
    LET rs == ASRouters(inv, asn)
        ebgp_peers == ebgp_table(inv, asn)
    IN  [router \in {rs[j].name : j \in DOMAIN rs} |->
           LET peers == ebgp_peers[router]
           IN  << Line("router bgp", NoAddr, asn, ""), RouterIdLine(router),
                  Line("no bgp default ipv4-unicast", NoAddr, 0, "") >>
               \o [k \in DOMAIN peers |->
                    Line("neighbor remote-as", peers[k].neighbor_ip,
                         peers[k].neighbor_asn, "")]
               \o << Line("address-family ipv6 unicast", NoAddr, 0, "") >>
               \o NetworkLines(rs[IndexOf(rs, router)], "")
               \o [k \in DOMAIN peers |->
                    Line("neighbor activate", peers[k].neighbor_ip, 0, "")]
               \o << Line("exit-address-family", NoAddr, 0, "") >>]

----------------------------------------------------------------------------
(* policies.py: communities, local preferences, policy objects, BGP blocks *)

COMMUNITY_CUSTOMER == "100:10"
COMMUNITY_PROVIDER == "100:20"
COMMUNITY_PEER == "100:30"
COMMUNITY_LOCAL == "100:40"

LOCALPREF_CUSTOMER == 200
LOCALPREF_PEER == 150
LOCALPREF_PROVIDER == 100

community_for_relationship(relationship) ==
    CASE relationship = CUSTOMER -> COMMUNITY_CUSTOMER
      [] relationship = PROVIDER -> COMMUNITY_PROVIDER
      [] relationship = PEER -> COMMUNITY_PEER
      [] OTHER -> COMMUNITY_PEER

localpref_for_relationship(relationship) ==
    CASE relationship = CUSTOMER -> LOCALPREF_CUSTOMER
      [] relationship = PROVIDER -> LOCALPREF_PROVIDER
      [] relationship = PEER -> LOCALPREF_PEER
      [] OTHER -> LOCALPREF_PEER

\* rel.upper()
Upper(rel) ==
    CASE rel = CUSTOMER -> "CUSTOMER"
      [] rel = PROVIDER -> "PROVIDER"
      [] rel = PEER -> "PEER"
      [] rel = "bogus" -> "BOGUS"
      [] OTHER -> rel

InRouteMap(rel) ==
    CASE Upper(rel) = "CUSTOMER" -> "RM-IN-CUSTOMER"
      [] Upper(rel) = "PROVIDER" -> "RM-IN-PROVIDER"
      [] Upper(rel) = "PEER" -> "RM-IN-PEER"
      [] OTHER -> "RM-IN-OTHER"

\* faulty variant: a peer gets the route-map meant for customers
OutRouteMapPeerAsCustomer(relationship) ==
    IF relationship = PROVIDER THEN "RM-OUT-TO-PROVIDER" ELSE "RM-OUT-TO-CUSTOMER"

OutRouteMap(relationship) ==
    IF relationship = CUSTOMER THEN "RM-OUT-TO-CUSTOMER"
    ELSE IF relationship = PROVIDER THEN "RM-OUT-TO-PROVIDER"
    ELSE "RM-OUT-TO-PEER"

\* _relationship_map_from_intent: rm[router][neighbor]; for several
\* interfaces to one neighbor the last one in file order wins; "" reads as peer
RelationshipOf(idata, asn, router_name, neighbor) ==
    LET rs == idata[ASIndex(idata, asn)].routers
        ifs == rs[IndexOf(rs, router_name)].interfaces
        hits == {k \in DOMAIN ifs : ifs[k].ngbr = neighbor}
        rel == ifs[CHOOSE k \in hits : \A m \in hits : m <= k].relationship
    IN  IF neighbor = "" \/ hits = {} THEN PEER
        ELSE IF rel = "" THEN PEER ELSE rel

\* A policy object: a community-list entry or a route-map clause with the
\* match and set lines that follow its header line.
PolicyObject(obj, name, action, seq, match, community, local_pref) ==
    [obj |-> obj, name |-> name, action |-> action, seq |-> seq,
     match |-> match, community |-> community, local_pref |-> local_pref]

InboundMap(rel) ==
    PolicyObject("route-map", InRouteMap(rel), "permit", 10, "",
                 community_for_relationship(rel), localpref_for_relationship(rel))

policy_object_definitions ==
    << PolicyObject("community-list", "COMM-CUST-OR-LOCAL", "permit", 0, "",
                    COMMUNITY_CUSTOMER, 0),
       PolicyObject("community-list", "COMM-CUST-OR-LOCAL", "permit", 0, "",
                    COMMUNITY_LOCAL, 0),
       PolicyObject("route-map", "RM-SET-LOCAL", "permit", 10, "", COMMUNITY_LOCAL, 0),
       InboundMap(CUSTOMER), InboundMap(PEER), InboundMap(PROVIDER),
       PolicyObject("route-map", "RM-OUT-TO-CUSTOMER", "permit", 10, "", "", 0),
       PolicyObject("route-map", "RM-OUT-TO-PEER", "permit", 10,
                    "COMM-CUST-OR-LOCAL", "", 0),
       PolicyObject("route-map", "RM-OUT-TO-PEER", "deny", 100, "", "", 0),
       PolicyObject("route-map", "RM-OUT-TO-PROVIDER", "permit", 10,
                    "COMM-CUST-OR-LOCAL", "", 0),
       PolicyObject("route-map", "RM-OUT-TO-PROVIDER", "deny", 100, "", "", 0) >>

\* How the router evaluates these objects: a community-list matches a route
\* that carries one of its permitted communities; a route-map applies its
\* first clause that matches, and denies when none does.
CommunityListMatches(objs, list, comms) ==
    \E i \in DOMAIN objs :
        /\ objs[i].obj = "community-list" /\ objs[i].name = list
        /\ objs[i].action = "permit" /\ objs[i].community \in comms

RouteMapPermits(objs, rm, comms) ==
    LET hits == {i \in DOMAIN objs :
                   /\ objs[i].obj = "route-map" /\ objs[i].name = rm
                   /\ (objs[i].match = "" \/
                       CommunityListMatches(objs, objs[i].match, comms))}
    IN  /\ hits # {}
        /\ objs[CHOOSE i \in hits : \A m \in hits : i <= m].action = "permit"

build_bgp_with_policies(inv, asn, idata, order) ==
    LET rs == ASRouters(inv, asn)
        ibgp_peers == ibgp_table(inv, asn, order)
        ebgp_peers == ebgp_table(inv, asn)
    IN  [router \in {rs[j].name : j \in DOMAIN rs} |->
          LET ibgp == ibgp_peers[router]
              ebgp == ebgp_peers[router]
              rel(k) == RelationshipOf(idata, asn, router, ebgp[k].neighbor_name)
          IN [global |-> policy_object_definitions,
              bgp |->
               << Line("router bgp", NoAddr, asn, ""), RouterIdLine(router),
                  Line("bgp log-neighbor-changes", NoAddr, 0, ""),
                  Line("no bgp default ipv4-unicast", NoAddr, 0, "") >>
               \o Flatten([k \in DOMAIN ibgp |->
                    << Line("neighbor remote-as", ibgp[k], asn, ""),
                       Line("neighbor update-source", ibgp[k], 0, "Loopback0") >>])
               \o [k \in DOMAIN ebgp |->
                    Line("neighbor remote-as", ebgp[k].neighbor_ip,
                         ebgp[k].neighbor_asn, "")]
               \o << Line("address-family ipv6 unicast", NoAddr, 0, "") >>
               \o NetworkLines(rs[IndexOf(rs, router)], "RM-SET-LOCAL")
               \o Flatten([k \in DOMAIN ibgp |->
                    << Line("neighbor activate", ibgp[k], 0, ""),
                       Line("neighbor next-hop-self", ibgp[k], 0, ""),
                       Line("neighbor send-community", ibgp[k], 0, "both") >>])
               \o Flatten([k \in DOMAIN ebgp |->
                    << Line("neighbor activate", ebgp[k].neighbor_ip, 0, ""),
                       Line("neighbor route-map in", ebgp[k].neighbor_ip, 0,
                            InRouteMap(rel(k))),
                       Line("neighbor route-map out", ebgp[k].neighbor_ip, 0,
                            OutRouteMap(rel(k))),
                       Line("neighbor send-community", ebgp[k].neighbor_ip, 0, "both") >>])
               \o << Line("exit-address-family", NoAddr, 0, "") >>]]

----------------------------------------------------------------------------
(* main.py: Network.generate_configurations and build_router_config        *)

\* "Loopback" in name
ContainsLoopback(s) ==
    LET c == Chars(s)
        p == <<76, 111, 111, 112, 98, 97, 99, 107>>
    IN  \E i \in 1..(Len(c) - Len(p) + 1) : SubSeq(c, i, i + Len(p) - 1) = p

\* utils.internal_interfaces, for one interface of a router of AS asn
IsInternal(inv, asn, if_obj) ==
    \/ if_obj.name = "Loopback0"
    \/ /\ if_obj.ngbr # ""
       /\ if_obj.ngbr \in DOMAIN inv.router_to_as
       /\ inv.router_to_as[if_obj.ngbr] = asn

\* utils.rip_commands / utils.ospf_commands for one router
IgpLines(igp, asn, router_name) ==
    IF igp = "RIP" THEN << Line("ipv6 router rip", NoAddr, asn, "") >>
    ELSE << Line("ipv6 router ospf", NoAddr, asn, ""),
            Line("router-id", NoAddr, router_id_v4(router_name), "10.10.10.") >>

\* the interface stanzas: Loopback interfaces first, then by name; an
\* interface without address is skipped
InterfaceLines(inv, asn, igp, router_obj) ==
    LET ifs == router_obj.interfaces
        names == {ifs[k].name : k \in DOMAIN ifs}
        sorted_interfaces ==
            SortedStrs({n \in names : ContainsLoopback(n)})
            \o SortedStrs({n \in names : ~ContainsLoopback(n)})
    IN  Flatten([k \in DOMAIN sorted_interfaces |->
          LET if_obj == ifs[IndexOf(ifs, sorted_interfaces[k])]
          IN  IF if_obj.ipv6.plen = 0 THEN <<>>
              ELSE << Line("interface", NoAddr, 0, if_obj.name),
                      Line("ipv6 address", if_obj.ipv6, 0, if_obj.name) >>
                   \o (IF IsInternal(inv, asn, if_obj)
                       THEN << Line(IF igp = "RIP" THEN "ipv6 rip enable"
                                    ELSE "ipv6 ospf area 0", NoAddr, asn, if_obj.name) >>
                       ELSE <<>>)
                   \o << Line("no shutdown", NoAddr, 0, if_obj.name) >>])

\* the bgp_bundle of one AS in --no-policies mode
NoPolicyBundle(inv, asn, order) ==
    LET rs == ASRouters(inv, asn)
        names == {rs[j].name : j \in DOMAIN rs}
        ibgp == IF Len(rs) > 1 THEN ibgp_commands(inv, asn, order)
                ELSE [n \in names |-> <<>>]
        ebgp == ebgp_commands(inv, asn)
    IN  [r \in names |->
           [global |-> <<>>,
            bgp |-> IF ebgp[r] # <<>> THEN ebgp[r]
                    ELSE IF ibgp[r] # <<>> THEN ibgp[r] ELSE <<>>]]

\* the files written: router name -> the parts of its configuration
generate_configurations(inv, policies, idata, order) ==
    [r \in DOMAIN inv.router_to_as |->
        LET asn == inv.router_to_as[r]
            as_obj == inv.ases[ASIndex(inv.ases, asn)]
            bgp_bundle == IF policies
                          THEN build_bgp_with_policies(inv, asn, idata, order)
                          ELSE NoPolicyBundle(inv, asn, order)
            router_obj == as_obj.routers[IndexOf(as_obj.routers, r)]
        IN  [asn |-> asn,
             igp |-> IgpLines(as_obj.igp, asn, r),
             interfaces |-> InterfaceLines(inv, asn, as_obj.igp, router_obj),
             global |-> bgp_bundle[r].global,
             bgp |-> bgp_bundle[r].bgp]]

\* validate_filled_intent: the interfaces still without an address
MissingAddresses(inv) ==
    {p \in Positions(inv.ases) : IfaceAt(inv.ases, p).ipv6.plen = 0}

----------------------------------------------------------------------------
(* The intent files the runs start from.                                   *)

MaxLinks == 2      \* links of a generated topology
MaxIfaces == 2     \* interfaces per router when neighbors are chosen freely
MaxAS == 2         \* AS entries of an intent of the structural family

Routers == {"R1", "R2", "R3"}
ASNs == {1, 2, 257}

Iface(name, ngbr, rel) ==
    [name |-> name, ngbr |-> ngbr, relationship |-> rel, ipv6 |-> NoAddr]
RouterEntry(name, ifs) == [name |-> name, interfaces |-> ifs]
ASEntry(asn, igp, routers) ==
    [asn |-> asn, igp |-> igp, routers |-> routers,
     add_range |-> NoRange, loopback |-> NoRange]

IfName(k) == CASE k = 1 -> "e0" [] k = 2 -> "e1" [] k = 3 -> "e2" [] OTHER -> "e3"
Reverse(q) == [i \in DOMAIN q |-> q[Len(q) + 1 - i]]
Ordered(q, rev) == IF rev THEN Reverse(q) ELSE q
Orderings(S) ==
    {q \in [1..Cardinality(S) -> S] : \A i, j \in DOMAIN q : i # j => q[i] # q[j]}

\* Family 1: topologies given by a set of links.  Every link is declared on
\* both ends; an inter-AS link is tagged customer on the side of the lower
\* AS number and provider on the other.  rev lists every dict in descending
\* order instead of ascending.  extra adds interfaces without neighbor.
LinkSets == {L \in SUBSET {{"R1", "R2"}, {"R1", "R3"}, {"R2", "R3"}} :
               Cardinality(L) <= MaxLinks}
Extras == {"none", "loopbacks", "stub"}

TopoIfaces(asOf, links, r, rev, extra) ==
    LET nb == SortedStrs({n \in Routers : {r, n} \in links /\ n # r})
        tag(n) == IF asOf[n] = asOf[r] THEN ""
                  ELSE IF asOf[r] < asOf[n] THEN CUSTOMER ELSE PROVIDER
        linked == [k \in DOMAIN nb |-> Iface(IfName(k), nb[k], tag(nb[k]))]
    IN  Ordered(linked, rev)
        \o (IF extra = "loopbacks" THEN << Iface("Loopback0", "", "") >> ELSE <<>>)
        \o (IF extra = "stub" /\ r = "R1"
            THEN << Iface(IfName(Len(nb) + 1), "", "") >> ELSE <<>>)

TopoIntent(asOf, links, rev, extra) ==
    LET asns == Ordered(SortedInts({asOf[r] : r \in Routers}), rev)
    IN  [i \in DOMAIN asns |->
          LET names == Ordered(SortedStrs({r \in Routers : asOf[r] = asns[i]}), rev)
          IN  ASEntry(asns[i], IF asns[i] = 2 THEN "RIP" ELSE "OSPF",
                [j \in DOMAIN names |->
                   RouterEntry(names[j],
                               TopoIfaces(asOf, links, names[j], rev, extra))])]

TopoIntents ==
    {TopoIntent(asOf, links, rev, extra) :
        asOf \in [Routers -> ASNs], links \in LinkSets,
        rev \in BOOLEAN, extra \in Extras}

\* Family 2: the two-AS scenario, AS 65001 with R1 and R2, AS 65002 with R3,
\* links R1-R2 and R2-R3, with every pair of tags on the inter-AS link.
Tags == {"", CUSTOMER, PROVIDER, PEER, "bogus"}

ScenarioIntent(t2, t3, asRev, ifRev) ==
    Ordered(
      << ASEntry(65001, "OSPF",
           << RouterEntry("R1", << Iface("e0", "R2", "") >>),
              RouterEntry("R2", Ordered(<< Iface("e0", "R1", ""),
                                           Iface("e1", "R3", t2) >>, ifRev)) >>),
         ASEntry(65002, "RIP",
           << RouterEntry("R3", << Iface("e0", "R2", t3) >>) >>) >>, asRev)

ScenarioIntents ==
    {ScenarioIntent(t2, t3, asRev, ifRev) :
        t2 \in Tags, t3 \in Tags, asRev \in BOOLEAN, ifRev \in BOOLEAN}

\* Family 3: two routers whose interfaces name any neighbor: each other,
\* themselves, nobody, or a router that does not exist.
FreeNeighbors == {"R1", "R2", "", "R9"}
FreeIfaceLists ==
    UNION {[1..n -> FreeNeighbors] : n \in 1..MaxIfaces}

FreeRouter(name, ngbrs, inter) ==
    RouterEntry(name,
      [k \in DOMAIN ngbrs |->
          Iface(IfName(k), ngbrs[k],
                IF inter /\ ngbrs[k] \notin {"", name} THEN PEER ELSE "")])

FreeIntent(n1, n2, layout) ==
    CASE layout = "one" ->
           << ASEntry(1, "OSPF", << FreeRouter("R1", n1, FALSE),
                                    FreeRouter("R2", n2, FALSE) >>) >>
      [] layout = "two" ->
           << ASEntry(1, "OSPF", << FreeRouter("R1", n1, TRUE) >>),
              ASEntry(2, "RIP", << FreeRouter("R2", n2, TRUE) >>) >>
      [] layout = "two-reversed" ->
           << ASEntry(2, "RIP", << FreeRouter("R2", n2, TRUE) >>),
              ASEntry(1, "OSPF", << FreeRouter("R1", n1, TRUE) >>) >>

FreeIntents ==
    {FreeIntent(n1, n2, layout) :
        n1 \in FreeIfaceLists, n2 \in FreeIfaceLists,
        layout \in {"one", "two", "two-reversed"}}

\* Family 4: structure.  Up to MaxAS entries with distinct AS numbers, each
\* with a supported or unsupported IGP and a list of routers that may be
\* empty, may name a router of another entry, and may hold a router
\* without interfaces.
StructRouter(name, bare) ==
    RouterEntry(name, IF bare THEN <<>> ELSE << Iface("Loopback0", "", "") >>)

StructRouterLists ==
    {<<>>}
    \cup {<< StructRouter(n, b) >> : n \in {"R1", "R2"}, b \in BOOLEAN}
    \cup {<< StructRouter(q[1], FALSE), StructRouter(q[2], FALSE) >> :
            q \in Orderings({"R1", "R2"})}

StructEntries(asn) ==
    {ASEntry(asn, "OSPF", rs) : rs \in StructRouterLists}
    \cup {ASEntry(asn, "ISIS", << StructRouter("R1", FALSE) >>)}

StructIntents ==
    UNION {
      UNION { {[i \in 1..n |-> pick[i]] :
                 pick \in {f \in [1..n -> UNION {StructEntries(a) : a \in ASNs}] :
                             \A i \in 1..n : f[i].asn = asns[i]}}
              : asns \in {q \in [1..n -> ASNs] :
                            \A i, j \in 1..n : i # j => q[i] # q[j]} }
      : n \in 1..MaxAS }

\* Family 5: one inter-AS link R1-R2 whose end on R1 is an interface with a
\* loopback name.
LoopbackLinkIntent(ifn, rev) ==
    Ordered(<< ASEntry(1, "OSPF", << RouterEntry("R1", << Iface(ifn, "R2", PEER) >>) >>),
               ASEntry(2, "RIP", << RouterEntry("R2", << Iface("e0", "R1", PEER) >>) >>) >>,
            rev)

LoopbackLinkIntents ==
    {LoopbackLinkIntent(ifn, rev) : ifn \in {"Loopback0", "Loopback1"}, rev \in BOOLEAN}

\* Family 6: a hub.  R2 (AS 1) has a link to R1 (AS 256) and a link to R3
\* (AS 257); R2 tags them t1 and t3, the far ends carry the complementary
\* tags.
ComplementOf(t) ==
    IF t = CUSTOMER THEN PROVIDER ELSE IF t = PROVIDER THEN CUSTOMER ELSE PEER

HubIntent(t1, t3) ==
    << ASEntry(256, "OSPF",
         << RouterEntry("R1", << Iface("e0", "R2", ComplementOf(t1)) >>) >>),
       ASEntry(1, "RIP",
         << RouterEntry("R2", << Iface("e0", "R1", t1), Iface("e1", "R3", t3) >>) >>),
       ASEntry(257, "OSPF",
         << RouterEntry("R3", << Iface("e0", "R2", ComplementOf(t3)) >>) >>) >>

HubIntents == {HubIntent(t1, t3) : t1 \in VALID_RELATIONSHIPS, t3 \in VALID_RELATIONSHIPS}

\* Family 7: one AS with two linked routers whose names are not all of the
\* form R<digits>.
RouterNames == {"R12", "r3", "PE2", "core"}

NamedIntent(n1, n2) ==
    << ASEntry(1, "OSPF", << RouterEntry(n1, << Iface("e0", n2, "") >>),
                             RouterEntry(n2, << Iface("e0", n1, "") >>) >>) >>

NamedIntents ==
    {NamedIntent(q[1], q[2]) : q \in {x \in RouterNames \X RouterNames : x[1] # x[2]}}

Intents ==
    TopoIntents \cup ScenarioIntents \cup FreeIntents \cup StructIntents
    \cup LoopbackLinkIntents \cup HubIntents \cup NamedIntents

----------------------------------------------------------------------------
(* Network.run                                                             *)

Init ==
    /\ intent_file \in Intents
    /\ use_policies \in BOOLEAN
    /\ intent_data = <<>>
    /\ filled_file = <<>>
    /\ inventory = NoInventory
    /\ configs = <<>>
    /\ pc = "load"
    /\ error = NoError
    /\ exit_code = -1
    /\ range_calls = 0
    /\ trace = <<>>

\* faulty variant: the handler prints the error and exits with code 0
FailExitZero(e) ==
    /\ error' = e
    /\ pc' = "failed"
    /\ exit_code' = 0

\* except Exception as e: print(...); sys.exit(1)
Fail(e) ==
    /\ error' = e
    /\ pc' = "failed"
    /\ exit_code' = 1

\* load_and_validate
LoadAndValidate ==
    /\ pc = "load"
    /\ trace' = Append(trace, "load")
    /\ intent_data' = intent_file
    /\ LET checked == basic_validation(intent_file)
       IN  IF checked.err # NoError
           THEN Fail(checked.err) /\ UNCHANGED inventory
           ELSE /\ inventory' = checked.inv
                /\ pc' = IF use_policies THEN "policies" ELSE "fill_intra"
                /\ UNCHANGED <<error, exit_code>>
    /\ UNCHANGED <<intent_file, use_policies, filled_file, configs, range_calls>>

\* validate_policies
ValidatePolicies ==
    /\ pc = "policies"
    /\ trace' = Append(trace, "policies")
    /\ LET e == validate_relationships(intent_data)
       IN  IF e # NoError THEN Fail(e)
           ELSE pc' = "fill_intra" /\ UNCHANGED <<error, exit_code>>
    /\ UNCHANGED <<intent_file, use_policies, intent_data, filled_file,
                   inventory, configs, range_calls>>

\* fill_addresses, first call: fill_ipv6_intra_as
FillIntraAs ==
    /\ pc = "fill_intra"
    /\ trace' = Append(trace, "fill_intra")
    /\ LET res == fill_ipv6_intra_as(intent_data)
       IN  /\ intent_data' = res.intent
           /\ IF res.err # NoError THEN Fail(res.err)
              ELSE pc' = "fill_ebgp" /\ UNCHANGED <<error, exit_code>>
    /\ UNCHANGED <<intent_file, use_policies, filled_file, inventory, configs,
                   range_calls>>

\* fill_addresses, second call: fill_ipv6_ebgp_links
FillEbgpLinks ==
    /\ pc = "fill_ebgp"
    /\ trace' = Append(trace, "fill_ebgp")
    /\ LET res == fill_ipv6_ebgp_links(intent_data)
       IN  /\ intent_data' = res.intent
           /\ range_calls' = range_calls + res.calls
           /\ IF res.err # NoError THEN Fail(res.err)
              ELSE pc' = "fill_loopbacks" /\ UNCHANGED <<error, exit_code>>
    /\ UNCHANGED <<intent_file, use_policies, filled_file, inventory, configs>>

\* fill_addresses, third call and the save: fill_loopbacks, save_intent
FillLoopbacks ==
    /\ pc = "fill_loopbacks"
    /\ trace' = Append(trace, "fill_loopbacks")
    /\ intent_data' = fill_loopbacks(intent_data)
    /\ filled_file' = intent_data'
    /\ pc' = "validate_filled"
    /\ UNCHANGED <<intent_file, use_policies, inventory, configs, error,
                   exit_code, range_calls>>

\* validate_filled_intent
ValidateFilledIntent ==
    /\ pc = "validate_filled"
    /\ trace' = Append(trace, "validate_filled")
    /\ LET checked == basic_validation(filled_file)
       IN  IF checked.err # NoError
           THEN Fail(checked.err) /\ UNCHANGED inventory
           ELSE /\ inventory' = checked.inv
                /\ IF MissingAddresses(checked.inv) # {}
                   THEN LET p == FirstPos(MissingAddresses(checked.inv))
                        IN  Fail(Err("MissingAddress",
                                     RouterAt(checked.inv.ases, p).name,
                                     IfaceAt(checked.inv.ases, p).name))
                   ELSE pc' = "generate" /\ UNCHANGED <<error, exit_code>>
    /\ UNCHANGED <<intent_file, use_policies, intent_data, filled_file, configs,
                   range_calls>>

\* generate_configurations; the run ends with exit code 0
GenerateConfigurations ==
    /\ pc = "generate"
    /\ trace' = Append(trace, "generate")
    /\ LET parsed == parse_info(filled_file)
       IN  /\ inventory' = parsed.inv
           /\ \E order \in Orderings(DOMAIN parsed.inv.router_to_as) :
                configs' = generate_configurations(parsed.inv, use_policies,
                                                   intent_data, order)
    /\ pc' = "done"
    /\ exit_code' = 0
    /\ UNCHANGED <<intent_file, use_policies, intent_data, filled_file, error,
                   range_calls>>

Next ==
    \/ LoadAndValidate
    \/ ValidatePolicies
    \/ FillIntraAs
    \/ FillEbgpLinks
    \/ FillLoopbacks
    \/ ValidateFilledIntent
    \/ GenerateConfigurations

Spec == Init /\ [][Next]_vars

----------------------------------------------------------------------------
(* Vocabulary of the properties.                                           *)

\* stage s ran to its end / stage s raised the exception that ended the run
StageFailed(s) == pc = "failed" /\ trace # <<>> /\ trace[Len(trace)] = s
StageDone(s) == s \in Range(trace) /\ ~StageFailed(s)

\* the AS entries that hold a router named n
Holders(data, n) == {i \in DOMAIN data : \E j \in DOMAIN data[i].routers :
                                             data[i].routers[j].name = n}
\* the interfaces of routers named b whose neighbor is a
BackPointers(data, a, b) ==
    {p \in Positions(data) : RouterAt(data, p).name = b /\ IfaceAt(data, p).ngbr = a}
\* interfaces with a neighbor that has not exactly one interface pointing back
Unmatched(data) ==
    {p \in Positions(data) :
        /\ IfaceAt(data, p).ngbr # ""
        /\ Cardinality(BackPointers(data, RouterAt(data, p).name,
                                    IfaceAt(data, p).ngbr)) # 1}
\* interfaces whose neighbor is a router of another AS entry
InterAsIfaces(data) ==
    {p \in Positions(data) :
        /\ IfaceAt(data, p).ngbr # ""
        /\ \E i \in Holders(data, IfaceAt(data, p).ngbr) : i # p[1]}
SelfLoops(data) ==
    {p \in Positions(data) : IfaceAt(data, p).ngbr = RouterAt(data, p).name}

----------------------------------------------------------------------------
\* C1: after address filling no link subnet of one AS lies inside the address
\* range or the loopback range of another AS, an inter-AS link subnet lies
\* inside no AS's range, and two distinct links never hold the same /64;
\* for all sets of AS numbers, also those equal modulo 256.
C1_AddressDisjointness ==
    StageDone("fill_ebgp") /\ pc = "fill_loopbacks" =>
        LET found == discover_all_links(intent_data)
            links == found.intra \o found.inter
            net(l) == LET rs == intent_data[ASIndex(intent_data, l.as1)].routers
                          ifs == rs[IndexOf(rs, l.r1)].interfaces
                      IN  ifs[IndexOf(ifs, l.if1)].ipv6
        IN  /\ \A a, b \in DOMAIN links :
                 a # b => <<net(links[a]).h2, net(links[a]).h3>>
                          # <<net(links[b]).h2, net(links[b]).h3>>
            /\ \A a \in DOMAIN links : \A i \in DOMAIN intent_data :
                 (links[a].as1 # links[a].as2 \/ intent_data[i].asn # links[a].as1)
                 => /\ net(links[a]).h2 # intent_data[i].add_range.h2
                    /\ <<net(links[a]).h2, net(links[a]).h3>>
                       # <<intent_data[i].loopback.h2, intent_data[i].loopback.h3>>

----------------------------------------------------------------------------
\* C2: when basic_validation succeeds, every interface with a neighbor has
\* exactly one interface of that neighbor pointing back, so every router
\* names each neighbor on at most one interface; an interface found with no
\* interface pointing back raises the non-reciprocal error, one found with
\* several raises the ambiguous-link error (the first such interface in file
\* order decides which).
C2_Reciprocity ==
    /\ StageDone("load") =>
         /\ Unmatched(intent_file) = {}
         /\ \A p, q \in Positions(intent_file) :
               /\ p[1] = q[1] /\ p[2] = q[2]
               /\ IfaceAt(intent_file, p).ngbr # ""
               /\ IfaceAt(intent_file, p).ngbr = IfaceAt(intent_file, q).ngbr
               => p = q
    /\ trace # <<>> /\ Unmatched(intent_file) # {} =>
         /\ StageFailed("load")
         /\ error.kind \in {"NonReciprocalLink", "AmbiguousLink"} =>
              LET p == FirstPos(Unmatched(intent_file))
                  n == Cardinality(BackPointers(intent_file,
                         RouterAt(intent_file, p).name, IfaceAt(intent_file, p).ngbr))
              IN  error = Err(IF n = 0 THEN "NonReciprocalLink" ELSE "AmbiguousLink",
                              RouterAt(intent_file, p).name,
                              IfaceAt(intent_file, p).name)
    /\ StageFailed("load") /\ error.kind = "NonReciprocalLink" =>
         \E p \in Unmatched(intent_file) :
            BackPointers(intent_file, RouterAt(intent_file, p).name,
                         IfaceAt(intent_file, p).ngbr) = {}

C2_Witness ==
    /\ StageDone("load")
    /\ \E p \in Positions(intent_file) : IfaceAt(intent_file, p).ngbr # ""

----------------------------------------------------------------------------
\* C3: an intent in which an interface names its own router as neighbor is
\* rejected by basic_validation: the run fails at the load stage and never
\* reaches address allocation.
C3_SelfLoopRejected ==
    trace # <<>> /\ SelfLoops(intent_file) # {} => StageFailed("load")

----------------------------------------------------------------------------
\* C4: when a router name appears under two AS entries, in either order of
\* the entries, parse_info fails, and it fails with the router-collision
\* error naming that router unless the entries hold another structural
\* defect (unsupported IGP, no routers, a router without interfaces); when
\* it succeeds, router_to_as maps every router name to the one AS entry
\* that holds it.
Collisions(data) ==
    {n \in GlobalNames(data) : Cardinality(Holders(data, n)) > 1}
WellFormedEntries(data) ==
    \A i \in DOMAIN data :
        /\ data[i].igp \in {"OSPF", "RIP"}
        /\ data[i].routers # <<>>
        /\ \A j \in DOMAIN data[i].routers : data[i].routers[j].interfaces # <<>>

C4_RouterCollision ==
    /\ trace # <<>> /\ Collisions(intent_file) # {} =>
         /\ StageFailed("load")
         /\ WellFormedEntries(intent_file) =>
              /\ error.kind = "RouterCollision"
              /\ error.router \in Collisions(intent_file)
    /\ StageDone("load") =>
         /\ DOMAIN inventory.router_to_as = GlobalNames(intent_file)
         /\ \A n \in GlobalNames(intent_file) :
               /\ Cardinality(Holders(intent_file, n)) = 1
               /\ \A i \in Holders(intent_file, n) :
                     inventory.router_to_as[n] = intent_file[i].asn

C4_Witness ==
    /\ StageFailed("load") /\ error.kind = "RouterCollision"
    /\ Collisions(intent_file) # {}
    /\ intent_file[1].asn > intent_file[2].asn

----------------------------------------------------------------------------
\* C5: when validate_relationships returns without error, the two tags of
\* every inter-AS link are complementary: peer with peer, provider with
\* customer, customer with provider; and an intent whose inter-AS tags are
\* all valid but not complementary on some link makes it raise the
\* inconsistent-relationship error.
ComplementaryTags ==
    {<<"peer", "peer">>, <<"provider", "customer">>, <<"customer", "provider">>}
\* the pairs <<p, q>> of interfaces that form an inter-AS link
InterAsLinks(data) ==
    {pq \in InterAsIfaces(data) \X InterAsIfaces(data) :
        /\ IfaceAt(data, pq[1]).ngbr = RouterAt(data, pq[2]).name
        /\ IfaceAt(data, pq[2]).ngbr = RouterAt(data, pq[1]).name}
TagsOf(data, pq) ==
    <<IfaceAt(data, pq[1]).relationship, IfaceAt(data, pq[2]).relationship>>

C5_Complementarity ==
    /\ StageDone("policies") =>
         \A pq \in InterAsLinks(intent_file) :
            TagsOf(intent_file, pq) \in ComplementaryTags
    /\ ( /\ "policies" \in Range(trace)
         /\ \A p \in InterAsIfaces(intent_file) :
               IfaceAt(intent_file, p).relationship \in {"customer", "provider", "peer"}
         /\ \E pq \in InterAsLinks(intent_file) :
               TagsOf(intent_file, pq) \notin ComplementaryTags )
       => StageFailed("policies") /\ error.kind = "InconsistentRelationship"

C5_Witness ==
    /\ StageFailed("policies") /\ error.kind = "InconsistentRelationship"
    /\ \E pq \in InterAsLinks(intent_file) :
          TagsOf(intent_file, pq) = <<"customer", "peer">>

----------------------------------------------------------------------------
\* C6: when an inter-AS interface has a missing or unrecognized tag,
\* validate_relationships fails with the invalid-relationship error naming
\* an interface with such a tag, whatever the order of the entries.
InvalidTagged(data) ==
    {p \in InterAsIfaces(data) :
        IfaceAt(data, p).relationship \notin {"customer", "provider", "peer"}}

C6_InvalidRelationshipReported ==
    "policies" \in Range(trace) /\ InvalidTagged(intent_file) # {} =>
        /\ StageFailed("policies")
        /\ error.kind = "InvalidRelationship"
        /\ \E p \in InvalidTagged(intent_file) :
              /\ error.router = RouterAt(intent_file, p).name
              /\ error.iface = IfaceAt(intent_file, p).name

----------------------------------------------------------------------------
\* C7: in the two-AS scenario (AS 65001 with R1 and R2, AS 65002 with R3,
\* R2's interface to R3 tagged provider, R3's interface to R2 tagged
\* customer) the outbound route-map of R3 toward R2 permits exactly the
\* routes that carry the customer or the local community.
Communities ==
    {COMMUNITY_CUSTOMER, COMMUNITY_PROVIDER, COMMUNITY_PEER, COMMUNITY_LOCAL}
IsScenario ==
    /\ use_policies
    /\ \E asRev, ifRev \in BOOLEAN :
          intent_file = ScenarioIntent("provider", "customer", asRev, ifRev)
\* the lines of router r's BGP block that attach an outbound route-map
OutboundMaps(r) ==
    {k \in DOMAIN configs[r].bgp : configs[r].bgp[k].cmd = "neighbor route-map out"}

C7_ScenarioExportPolicy ==
    pc = "done" /\ IsScenario =>
        /\ Cardinality(OutboundMaps("R3")) = 1
        /\ \A k \in OutboundMaps("R3") : \A comms \in SUBSET Communities :
              RouteMapPermits(configs["R3"].global, configs["R3"].bgp[k].arg, comms)
              <=> (comms \cap {COMMUNITY_CUSTOMER, COMMUNITY_LOCAL} # {})

----------------------------------------------------------------------------
\* C9: in a run on a topology without inter-AS link choose_ebgp_range is
\* never called, the no-eBGP-range error does not occur,
\* fill_ipv6_ebgp_links leaves the intent as it found it, and no BGP block
\* written holds an eBGP neighbor (a neighbor of another AS, or a
\* route-map attached to a neighbor).
EbgpLines(r) ==
    {k \in DOMAIN configs[r].bgp :
        \/ /\ configs[r].bgp[k].cmd = "neighbor remote-as"
           /\ configs[r].bgp[k].num # configs[r].asn
        \/ configs[r].bgp[k].cmd \in {"neighbor route-map in", "neighbor route-map out"}}

C9_State ==
    InterAsIfaces(intent_file) = {} =>
        /\ range_calls = 0
        /\ error.kind # "NoEbgpRange"
        /\ pc = "done" => \A r \in DOMAIN configs : EbgpLines(r) = {}

C9_Step ==
    InterAsIfaces(intent_file) = {} /\ pc = "fill_ebgp" => intent_data' = intent_data

C9_NoInterAsLinks == [](C9_State) /\ [][C9_Step]_vars

C9_Witness ==
    /\ pc = "done"
    /\ InterAsIfaces(intent_file) = {}
    /\ Len(intent_file) > 1
    /\ \E p \in Positions(intent_file) : IfaceAt(intent_file, p).ngbr # ""

----------------------------------------------------------------------------
\* C10: once the three allocation steps have completed, both endpoints of
\* every discovered link, every interface that names a neighbor and every
\* Loopback0 interface hold an address.
C10_AllAddressed ==
    StageDone("fill_loopbacks") =>
        LET found == discover_all_links(intent_data)
            links == found.intra \o found.inter
            addressed(asn, r, ifn) ==
                \E p \in Positions(intent_data) :
                    /\ RouterAt(intent_data, p).name = r
                    /\ IfaceAt(intent_data, p).name = ifn
                    /\ IfaceAt(intent_data, p).ipv6.plen > 0
        IN  /\ found.err = NoError
            /\ \A k \in DOMAIN links :
                  /\ addressed(links[k].as1, links[k].r1, links[k].if1)
                  /\ addressed(links[k].as2, links[k].r2, links[k].if2)
            /\ \A p \in Positions(intent_data) :
                  \/ /\ IfaceAt(intent_data, p).ngbr = ""
                     /\ IfaceAt(intent_data, p).name # "Loopback0"
                  \/ IfaceAt(intent_data, p).ipv6.plen > 0

C10_Witness ==
    /\ StageDone("fill_loopbacks")
    /\ discover_all_links(intent_data).intra # <<>>
    /\ discover_all_links(intent_data).inter # <<>>

----------------------------------------------------------------------------
\* C11: in policy mode the iBGP neighbors in the BGP block of a router R
\* (the neighbors that get update-source Loopback0) are exactly the
\* loopback addresses of the other routers of R's AS, one neighbor each,
\* R's own loopback is not among them, and each is declared with remote-as
\* equal to the AS's own number and with no other AS number.
\* the Loopback0 address, without prefix length, of router n in the filled file
LoopbackOf(n) ==
    LET p == CHOOSE q \in Positions(filled_file) :
                /\ RouterAt(filled_file, q).name = n
                /\ IfaceAt(filled_file, q).name = "Loopback0"
    IN  StripPrefixLen(IfaceAt(filled_file, p).ipv6)
\* the routers of the AS entry of router n, n excluded
OtherRouters(n) ==
    {m \in DOMAIN configs : m # n /\ configs[m].asn = configs[n].asn}
LinesOf(r, cmd) == {k \in DOMAIN configs[r].bgp : configs[r].bgp[k].cmd = cmd}
IbgpNeighbors(r) == {configs[r].bgp[k].ip : k \in LinesOf(r, "neighbor update-source")}

C11_IbgpFullMesh ==
    pc = "done" /\ use_policies =>
        \A r \in DOMAIN configs :
            /\ IbgpNeighbors(r) = {LoopbackOf(m) : m \in OtherRouters(r)}
            /\ Cardinality(LinesOf(r, "neighbor update-source"))
                 = Cardinality(OtherRouters(r))
            /\ LoopbackOf(r) \notin IbgpNeighbors(r)
            /\ \A a \in IbgpNeighbors(r) :
                  /\ \E k \in LinesOf(r, "neighbor remote-as") :
                        configs[r].bgp[k].ip = a
                  /\ \A k \in LinesOf(r, "neighbor remote-as") :
                        configs[r].bgp[k].ip = a =>
                            configs[r].bgp[k].num = configs[r].asn

C11_Witness ==
    /\ pc = "done" /\ use_policies
    /\ \E r \in DOMAIN configs : Cardinality(OtherRouters(r)) = 2

----------------------------------------------------------------------------
\* C12: when the configurations are generated, ebgp_table holds for every
\* inter-AS interface of a router R exactly one entry; the entry carries
\* the address of the neighbor's interface that points back to R and the
\* AS number of the neighbor; and R has no other entry.
\* the eBGP entries of the router at position p of the filled file
EbgpEntriesAt(p) ==
    ebgp_table(inventory, filled_file[p[1]].asn)[RouterAt(filled_file, p).name]
\* the entries of the router of p match its interfaces in the set inter
EntriesMatch(p, inter) ==
    LET R == RouterAt(filled_file, p).name
        entries == EbgpEntriesAt(p)
        mine == {k \in DOMAIN entries :
                   entries[k].local_interface = IfaceAt(filled_file, p).name}
        ofR == {q \in inter : RouterAt(filled_file, q).name = R}
    IN  /\ Len(entries) = Cardinality(ofR)
        /\ p \in inter =>
             /\ Cardinality(mine) = 1
             /\ \A k \in mine :
                  \E b \in BackPointers(filled_file, R, IfaceAt(filled_file, p).ngbr) :
                     /\ entries[k].neighbor_ip
                          = StripPrefixLen(IfaceAt(filled_file, b).ipv6)
                     /\ entries[k].neighbor_ip.plen # 0
                     /\ entries[k].neighbor_asn = filled_file[b[1]].asn
                     /\ entries[k].neighbor_name = RouterAt(filled_file, b).name
        /\ p \notin inter => mine = {}

C12_EbgpTable ==
    pc = "done" =>
        \A p \in Positions(filled_file) : EntriesMatch(p, InterAsIfaces(filled_file))

\* C12 (amended): the same for the inter-AS interfaces whose name does not
\* start with "Loopback"; an interface with such a name never gets an entry.
NamedInterAsIfaces ==
    {q \in InterAsIfaces(filled_file) :
        ~StartsWithLoopback(IfaceAt(filled_file, q).name)}

C12_EbgpTableNonLoopback ==
    pc = "done" =>
        \A p \in Positions(filled_file) : EntriesMatch(p, NamedInterAsIfaces)

C12_Witness ==
    /\ pc = "done"
    /\ \E p \in Positions(filled_file) : Len(EbgpEntriesAt(p)) = 1
    /\ NamedInterAsIfaces # InterAsIfaces(filled_file)

----------------------------------------------------------------------------
\* C13: in policy mode, for every eBGP neighbor of every router: when the
\* router classifies the neighbor as customer, the outbound route-map
\* attached to it permits every route; when it classifies it as peer or
\* provider, that route-map permits exactly the routes carrying the
\* customer or the local community; and the inbound route-maps set a
\* local preference that is higher for a customer than for a peer and
\* higher for a peer than for a provider.
EbgpEntriesOf(r) == ebgp_table(inventory, configs[r].asn)[r]
\* how router r classifies neighbor n: the tag on its interface to n
ClassOf(r, n) ==
    LET p == CHOOSE q \in Positions(filled_file) :
                /\ RouterAt(filled_file, q).name = r
                /\ IfaceAt(filled_file, q).ngbr = n
    IN  IF IfaceAt(filled_file, p).relationship = "" THEN "peer"
        ELSE IfaceAt(filled_file, p).relationship
ClassRank(c) == CASE c = "customer" -> 3 [] c = "peer" -> 2 [] c = "provider" -> 1
                  [] OTHER -> 0
\* the route-maps router r attaches to address a in direction cmd
AttachedMaps(r, a, cmd) ==
    {configs[r].bgp[k].arg : k \in {j \in LinesOf(r, cmd) : configs[r].bgp[j].ip = a}}
\* the local preference set by route-map rm
SetLocalPreference(objs, rm) ==
    objs[CHOOSE i \in DOMAIN objs :
            objs[i].obj = "route-map" /\ objs[i].name = rm].local_pref
\* the pairs <<r, k>>: the k-th eBGP neighbor of router r
EbgpNeighbors == {rk \in (DOMAIN configs) \X (1..4) : rk[2] <= Len(EbgpEntriesOf(rk[1]))}
InboundLocalPref(rk) ==
    LET e == EbgpEntriesOf(rk[1])[rk[2]]
        rm == CHOOSE m \in AttachedMaps(rk[1], e.neighbor_ip, "neighbor route-map in") : TRUE
    IN  SetLocalPreference(configs[rk[1]].global, rm)
NeighborClass(rk) == ClassOf(rk[1], EbgpEntriesOf(rk[1])[rk[2]].neighbor_name)

C13_ExportPolicyAndLocalPref ==
    pc = "done" /\ use_policies =>
        /\ \A rk \in EbgpNeighbors :
              LET r == rk[1]
                  e == EbgpEntriesOf(r)[rk[2]]
                  outs == AttachedMaps(r, e.neighbor_ip, "neighbor route-map out")
                  ins == AttachedMaps(r, e.neighbor_ip, "neighbor route-map in")
              IN  /\ Cardinality(outs) = 1 /\ Cardinality(ins) = 1
                  /\ NeighborClass(rk) \in {"customer", "peer", "provider"}
                  /\ \A rm \in outs : \A comms \in SUBSET Communities :
                        RouteMapPermits(configs[r].global, rm, comms)
                        <=> \/ NeighborClass(rk) = "customer"
                            \/ comms \cap {COMMUNITY_CUSTOMER, COMMUNITY_LOCAL} # {}
        /\ \A rk1, rk2 \in EbgpNeighbors :
              ClassRank(NeighborClass(rk1)) > ClassRank(NeighborClass(rk2))
                  => InboundLocalPref(rk1) > InboundLocalPref(rk2)

C13_Witness ==
    /\ pc = "done" /\ use_policies
    /\ \E rk1, rk2 \in EbgpNeighbors :
          /\ rk1[1] = rk2[1]
          /\ NeighborClass(rk1) = "customer" /\ NeighborClass(rk2) = "peer"
    /\ \E rk \in EbgpNeighbors : NeighborClass(rk) = "provider"

----------------------------------------------------------------------------
\* C14: the stages of a run start in the fixed order topology validation,
\* relationship validation (policy mode only), the three allocation
\* steps, post-fill validation, generation, each at most once; a failing
\* stage ends the run with exit code 1 and nothing starts after it; the
\* filled intent file exists only when the three allocation steps have
\* succeeded, router configurations only when post-fill validation has
\* passed; and a run in which no stage fails ends with exit code 0: a
\* stage that does not fail hands over to the next stage of the order, the
\* last one to the end of the run with exit code 0.
StageOrder ==
    << "load" >> \o (IF use_policies THEN << "policies" >> ELSE <<>>)
    \o << "fill_intra", "fill_ebgp", "fill_loopbacks", "validate_filled", "generate" >>

C14_State ==
    /\ Len(trace) <= Len(StageOrder)
    /\ trace = SubSeq(StageOrder, 1, Len(trace))
    /\ pc = "failed" <=> exit_code = 1
    /\ pc = "failed" <=> error # NoError
    /\ pc = "done" <=> exit_code = 0
    /\ pc = "done" => trace = StageOrder
    /\ pc \notin {"failed", "done"} => exit_code = -1
    /\ filled_file # <<>> =>
          /\ StageDone("fill_intra") /\ StageDone("fill_ebgp")
          /\ StageDone("fill_loopbacks")
    /\ configs # <<>> => StageDone("validate_filled") /\ pc = "done"

\* a step is the start of the stage pc names; nothing steps after the end
C14_Step ==
    /\ pc \notin {"failed", "done"}
    /\ trace' = Append(trace, pc)
    /\ \/ pc' = "failed" /\ exit_code' = 1
       \/ /\ Len(trace') < Len(StageOrder)
          /\ pc' = StageOrder[Len(trace') + 1]
          /\ exit_code' = -1
       \/ /\ trace' = StageOrder
          /\ pc' = "done"
          /\ exit_code' = 0

C14_StageOrder == [](C14_State) /\ [][C14_Step]_vars

C14_Witness ==
    /\ pc = "failed"
    /\ use_policies
    /\ trace = << "load", "policies", "fill_intra", "fill_ebgp", "fill_loopbacks",
                  "validate_filled" >>
    /\ filled_file # <<>>

----------------------------------------------------------------------------
\* C15: the BGP router ID of a router is n.n.n.n where n is the number
\* written by the digits that end its name, whatever precedes them, and
\* 1.1.1.1 when the name does not end in a digit.
\* the number written by the longest run of digits that ends the name
RECURSIVE DigitSuffix(_)
DigitSuffix(cs) ==
    IF cs = <<>> \/ cs[Len(cs)] \notin 48..57 THEN <<>>
    ELSE Append(DigitSuffix(SubSeq(cs, 1, Len(cs) - 1)), cs[Len(cs)])
TrailingNumber(name) ==
    IF DigitSuffix(Chars(name)) = <<>> THEN 1
    ELSE DigitsValue(DigitSuffix(Chars(name)), 0)

C15_RouterIdFromTrailingDigits ==
    pc = "done" =>
        \A r \in DOMAIN configs :
            /\ LinesOf(r, "bgp router-id") # {}
            /\ \A k \in LinesOf(r, "bgp router-id") :
                  configs[r].bgp[k].num = TrailingNumber(r)

----------------------------------------------------------------------------
\* C16: on a validated topology discover_all_links lists the links, in
\* each of its two lists, by ascending AS number and then ascending router
\* name of their source endpoint, and the source endpoint of a link is the
\* one of its two routers that comes first in that order; also when the
\* router names do not sort like their AS numbers.
GlobalIndexLess(as1, r1, as2, r2) == as1 < as2 \/ (as1 = as2 /\ StrLess(r1, r2))
InGlobalIndexOrder(links) ==
    /\ \A i, j \in DOMAIN links :
          i < j => ~GlobalIndexLess(links[j].as1, links[j].r1,
                                    links[i].as1, links[i].r1)
    /\ \A i \in DOMAIN links :
          ~GlobalIndexLess(links[i].as2, links[i].r2, links[i].as1, links[i].r1)

C16_DiscoveryInGlobalIndexOrder ==
    StageDone("load") =>
        /\ InGlobalIndexOrder(discover_all_links(intent_file).intra)
        /\ InGlobalIndexOrder(discover_all_links(intent_file).inter)

----------------------------------------------------------------------------
\* C17: after fill_loopbacks the router that is k-th by name among the
\* routers of its AS holds, on Loopback0, the k-th host of the loopback
\* range of the AS with prefix length 128, whatever the order of the
\* routers in the intent.
\* the rank of router name n among the routers of AS entry e
NameRank(e, n) ==
    1 + Cardinality({j \in DOMAIN e.routers : StrLess(e.routers[j].name, n)})

C17_LoopbacksByName ==
    StageDone("fill_loopbacks") =>
        \A i \in DOMAIN intent_data : \A j \in DOMAIN intent_data[i].routers :
            LET e == intent_data[i]
                r == e.routers[j]
            IN  /\ HasKey(r.interfaces, "Loopback0")
                /\ r.interfaces[IndexOf(r.interfaces, "Loopback0")].ipv6
                     = [h2 |-> e.loopback.h2, h3 |-> e.loopback.h3,
                        host |-> NameRank(e, r.name), plen |-> 128]

----------------------------------------------------------------------------
\* C18: when fill_ipv6_intra_as has run, the k-th intra-AS link of an AS in
\* discovery order holds the k-th /64 of the /48 of that AS: for a link
\* between two distinct routers the source endpoint has host 1 and the
\* reverse endpoint host 2 of that block, both with prefix length 64, so
\* the two ends are in one subnet and differ.
\* the address held by interface ifn of router r
Ipv6Of(r, ifn) ==
    LET p == CHOOSE q \in Positions(intent_data) :
                /\ RouterAt(intent_data, q).name = r
                /\ IfaceAt(intent_data, q).name = ifn
    IN  IfaceAt(intent_data, p).ipv6
\* the number of the link at index i among the intra-AS links of its AS
LinkRank(links, i) ==
    Cardinality({j \in 1..i : links[j].as1 = links[i].as1})

C18_IntraAsBlocks ==
    pc = "fill_ebgp" =>
        LET links == discover_all_links(intent_data).intra
        IN  \A i \in DOMAIN links :
              LET l == links[i]
                  range == intent_data[ASIndex(intent_data, l.as1)].add_range
                  a1 == Ipv6Of(l.r1, l.if1)
                  a2 == Ipv6Of(l.r2, l.if2)
              IN  l.r1 # l.r2 =>
                    /\ range.plen = 48
                    /\ a1 = [h2 |-> range.h2, h3 |-> LinkRank(links, i) - 1,
                             host |-> 1, plen |-> 64]
                    /\ a2 = [h2 |-> range.h2, h3 |-> LinkRank(links, i) - 1,
                             host |-> 2, plen |-> 64]
                    /\ a1 # a2

C18_Witness ==
    /\ pc = "fill_ebgp"
    /\ Len(discover_all_links(intent_data).intra) = 2
    /\ LinkRank(discover_all_links(intent_data).intra, 2) = 2

----------------------------------------------------------------------------
\* C19: when the topology has an inter-AS link, choose_ebgp_range is
\* called and returns a /48 of 2001:db8::/32 that is the address range of
\* no AS, both ends of every inter-AS link then hold an address with
\* prefix length 64 inside that /48, and the search never fails.
C19_EbgpRange ==
    /\ error.kind # "NoEbgpRange"
    /\ pc = "fill_loopbacks" /\ discover_all_links(intent_data).inter # <<>> =>
          LET links == discover_all_links(intent_data).inter
              chosen == choose_ebgp_range(intent_data)
          IN  /\ range_calls = 1
              /\ chosen \in 0..MAX_HEXTET
              /\ \A i \in DOMAIN intent_data :
                    /\ intent_data[i].add_range.plen = 48
                    /\ intent_data[i].add_range.h2 # chosen
              /\ \A k \in DOMAIN links :
                    \A a \in {Ipv6Of(links[k].r1, links[k].if1),
                              Ipv6Of(links[k].r2, links[k].if2)} :
                        /\ a.h2 = chosen
                        /\ a.h3 \in 0..MAX_HEXTET
                        /\ a.plen = 64

C19_Witness ==
    /\ pc = "fill_loopbacks"
    /\ Len(discover_all_links(intent_data).inter) = 2
    /\ choose_ebgp_range(intent_data) = 2

----------------------------------------------------------------------------
\* C20: on a topology that passed basic_validation discover_all_links
\* does not raise its link-not-symmetric error, every interface that names
\* a neighbor is an endpoint of exactly one link of the two lists, no pair
\* of routers is listed twice, and a link is in the intra-AS list exactly
\* when its two routers are in the same AS entry.
IsEndpoint(l, r, ifn) == (l.r1 = r /\ l.if1 = ifn) \/ (l.r2 = r /\ l.if2 = ifn)

C20_DiscoveryAfterValidation ==
    /\ error.kind # "LinkNotSymmetric"
    /\ StageDone("load") =>
          LET found == discover_all_links(intent_file)
              links == found.intra \o found.inter
          IN  /\ found.err = NoError
              /\ \A p \in Positions(intent_file) :
                    IfaceAt(intent_file, p).ngbr # "" =>
                       Cardinality({k \in DOMAIN links :
                          IsEndpoint(links[k], RouterAt(intent_file, p).name,
                                     IfaceAt(intent_file, p).name)}) = 1
              /\ \A k, m \in DOMAIN links :
                    k # m => {links[k].r1, links[k].r2} # {links[m].r1, links[m].r2}
              /\ \A k \in DOMAIN found.intra :
                    Holders(intent_file, found.intra[k].r1)
                      = Holders(intent_file, found.intra[k].r2)
              /\ \A k \in DOMAIN found.inter :
                    Holders(intent_file, found.inter[k].r1)
                      # Holders(intent_file, found.inter[k].r2)

C20_Witness ==
    /\ StageDone("load")
    /\ discover_all_links(intent_file).intra # <<>>
    /\ discover_all_links(intent_file).inter # <<>>
    /\ \E p \in Positions(intent_file) : p[3] = 2 /\ IfaceAt(intent_file, p).ngbr # ""

----------------------------------------------------------------------------
\* C21: the missing-address error is unreachable: on every intent that
\* passes the validations and on which the three allocation steps succeed,
\* post-fill validation does not fail and the run goes on to the
\* generation of the configurations.
C21_MissingAddressUnreachable ==
    /\ error.kind # "MissingAddress"
    /\ StageDone("fill_loopbacks") => ~StageFailed("validate_filled")

----------------------------------------------------------------------------
\* C22: without policies, the BGP block of a router that has another
\* router in its AS and an inter-AS interface declares every other router
\* of the AS as iBGP neighbor (its loopback, with the AS's own number) and
\* every eBGP neighbor of the router (its address and AS number).
HasInterAsIface(r) ==
    \E p \in InterAsIfaces(filled_file) : RouterAt(filled_file, p).name = r
Declares(r, a, asn) ==
    \E k \in LinesOf(r, "neighbor remote-as") :
        configs[r].bgp[k].ip = a /\ configs[r].bgp[k].num = asn

C22_NoPoliciesBlockHasBoth ==
    pc = "done" /\ ~use_policies =>
        \A r \in DOMAIN configs :
            OtherRouters(r) # {} /\ HasInterAsIface(r) =>
                /\ \A m \in OtherRouters(r) : Declares(r, LoopbackOf(m), configs[r].asn)
                /\ \A k \in DOMAIN EbgpEntriesOf(r) :
                      Declares(r, EbgpEntriesOf(r)[k].neighbor_ip,
                               EbgpEntriesOf(r)[k].neighbor_asn)

====
